---- MODULE Spec2Model ----
(***************************************************************************)
(* Report-generation core of smart_aquaculture_web.                        *)
(*                                                                         *)
(*   - downloadPagedElementsAsPdf (src/src/utils/download.ts): one call,   *)
(*     cut at its suspension points (await html2canvas).                   *)
(*   - tickPlan of SingleChart (src/src/components/TrendChart.tsx): the    *)
(*     memoised axis tick plan, recomputed on every render.                *)
(*   - downloadElementAsPdf (src/src/utils/download.ts): the single-block  *)
(*     export and its slicing loop, one iteration per step.                *)
(*   - PondDetail (src/unnamed/part_016): the trend fetch effect and       *)
(*     handleExportTrendPdf with its layout-readiness wait.                *)
(*                                                                         *)
(* Lengths in the export part are exact rationals <<num, den>> in units of *)
(* 1/100 pt (jsPDF works in pt; A4 is 595.28pt x 841.89pt).  Lengths in    *)
(* the tick planner are integers in 1/1000 px.                             *)
(***************************************************************************)
EXTENDS Integers, Sequences, FiniteSets, TLC

\* ------------------------------------------------------------------ bounds
MaxBlocks == 7        \* longest element list passed to the paged export
MaxNulls == 1         \* most null/undefined entries in an element list
CapFnLen == 2         \* page indices on which a capacity function may differ
MaxPoints == 5        \* most data points handed to one chart
MaxStamp == 5         \* distinct time strings occurring in chart data

\* ------------------------------------------------------- generic helpers
Min(a, b) == IF a < b THEN a ELSE b

Max(a, b) == IF a > b THEN a ELSE b

Abs(a) == IF a < 0 THEN -a ELSE a

RECURSIVE GCD(_, _)
GCD(a, b) == IF b = 0 THEN Abs(a) ELSE GCD(b, a % b)

RECURSIVE Flatten(_)
Flatten(ss) == IF ss = <<>> THEN <<>> ELSE Head(ss) \o Flatten(Tail(ss))

RECURSIVE SumLens(_, _)
SumLens(ss, k) == IF k = 0 THEN 0 ELSE Len(ss[k]) + SumLens(ss, k - 1)

\* ------------------------------------------------- rationals <<num, den>>
Rat(n, d) == LET g == GCD(n, d) IN
             IF d < 0 THEN <<(-n) \div g, (-d) \div g>> ELSE <<n \div g, d \div g>>

RInt(n) == <<n, 1>>

\* a * b, cross-reduced before multiplying
RMul(a, b) == LET g1 == GCD(a[1], b[2])
                  g2 == GCD(b[1], a[2])
              IN  Rat((a[1] \div g1) * (b[1] \div g2), (a[2] \div g2) * (b[2] \div g1))

RDiv(a, b) == RMul(a, <<b[2], b[1]>>)

RAdd(a, b) == LET g == GCD(a[2], b[2])
              IN  Rat(a[1] * (b[2] \div g) + b[1] * (a[2] \div g), (a[2] \div g) * b[2])

RSub(a, b) == RAdd(a, <<-b[1], b[2]>>)

RLe(a, b) == a[1] * b[2] <= b[1] * a[2]

RLt(a, b) == a[1] * b[2] < b[1] * a[2]

\* ==================================================================
\* downloadPagedElementsAsPdf                     src/src/utils/download.ts
\* ==================================================================
VARIABLES
  pc,          \* "idle" | "capturing" (awaiting html2canvas) | "done" (resolved) | "rejected"
  opts,        \* the options object of the call in progress; its field ctx2d
               \* tells whether canvas.getContext('2d') yields a context, its
               \* field ignoredBlocks which blocks match ignoreSelector
  pdf,         \* FALSE until `new jsPDF(...)` ran
  pages,       \* the local `pages`
  pageIndex,   \* the loop variable of the capture loop
  body,        \* staging wrappers currently appended to document.body
  h2cCalls,    \* page indices html2canvas was invoked for, in call order
  headerCalls, \* arguments <<pageIndex, totalPages>> of the headerBuilder calls
  pdfOps,      \* calls made on the jsPDF document, in call order
  lastPlaced,  \* arguments of the latest pdf.addImage
  error        \* the rejection reason, "none" while there is none

exportVars ==
  <<pc, opts, pdf, pages, pageIndex, body, h2cCalls, headerCalls, pdfOps, lastPlaced, error>>

\* --- numbers a caller may hand over as a capacity: <<"num", halves>> is
\* --- the number halves/2; <<"nan", 0>> is NaN; <<"inf", 0>> is Infinity
Num(h) == <<"num", h>>

NaN == <<"nan", 0>>

Infinity == <<"inf", 0>>

\* -1, 0, 0.5, 1, 2, 2.5, 3, 4, NaN, Infinity
CapValues == {Num(-2), Num(0), Num(1), Num(2), Num(4), Num(5), Num(6), Num(8), NaN, Infinity}

\* -1, 0, 0.5, 2, 2.5, 3, 4, NaN, Infinity
FnCapValues == {Num(-2), Num(0), Num(1), Num(4), Num(5), Num(6), Num(8), NaN, Infinity}

\* itemsPerPage: a number, or a function of pageIndex.  A function is given
\* by its values on the first page indices; its last value repeats
\* (the repository's caller is pageIndex === 0 ? 3 : 4).
Capacities ==
  {<<"const", <<v>> >> : v \in CapValues}
    \cup {<<"fn", f>> : f \in [1..CapFnLen -> FnCapValues]}

CallItemsPerPage(ipp, pIdx) == ipp[2][Min(pIdx + 1, Len(ipp[2]))]

TruthyAny(ipp) == ipp[1] \in {"fn", "const"}

\* JavaScript truthiness of the itemsPerPage option (a function is truthy)
Truthy(ipp) ==
  \/ ipp[1] = "fn"
  \/ /\ ipp[1] = "const"
     /\ ipp[2][1] # NaN
     /\ ipp[2][1] # Num(0)

IsFinite(v) == v[1] = "num"

MathFloor(v) == v[2] \div 2

\* getItemsPerPage
GetItemsPerPageCeil(ipp, pIdx) ==
  LET v == CallItemsPerPage(ipp, pIdx)
  IN  IF IsFinite(v) /\ v[2] >= 2 THEN (v[2] + 1) \div 2 ELSE 1

GetItemsPerPageFirst(ipp, pIdx) ==
  LET v == CallItemsPerPage(ipp, 0)
  IN  IF IsFinite(v) /\ v[2] >= 2 THEN MathFloor(v) ELSE 1

GetItemsPerPage(ipp, pIdx) ==
  LET v == CallItemsPerPage(ipp, pIdx)
  IN  IF IsFinite(v) /\ v[2] >= 2 THEN MathFloor(v) ELSE 1

\* --- element lists: entry k is the block k, or 0 for null/undefined
NullsIn(l) == Cardinality({k \in DOMAIN l : l[k] = 0})

ElementLists ==
  UNION {{[k \in 1..n |-> IF k \in N THEN 0 ELSE k] :
            N \in {M \in SUBSET (1..n) : Cardinality(M) <= MaxNulls}} : n \in 0..MaxBlocks}

\* the `elements` option: a list, or not supplied at all
ElementArgs == {[given |-> TRUE, list |-> l] : l \in ElementLists}
                 \cup {[given |-> FALSE, list |-> <<>>]}

\* elements.filter(Boolean)
SafeElements(l) == SelectSeq(l, LAMBDA e : e # 0)

\* Array.prototype.slice(from, to), 0-based, end-exclusive, clamped
Slice(s, from, to) == SubSeq(s, from + 1, Min(to, Len(s)))

\* the partitioning loop
RECURSIVE SplitPagesDup(_, _, _, _, _)
SplitPagesDup(safe, ipp, cursor, pIdx, acc) ==
  IF cursor < Len(safe)
  THEN LET count == GetItemsPerPage(ipp, pIdx)
       IN  SplitPagesDup(safe, ipp, cursor + Max(1, count - 1), pIdx + 1,
                         Append(acc, Slice(safe, cursor, cursor + count)))
  ELSE acc

RECURSIVE SplitPagesTrailingEmpty(_, _, _, _, _)
SplitPagesTrailingEmpty(safe, ipp, cursor, pIdx, acc) ==
  IF cursor <= Len(safe)
  THEN LET count == GetItemsPerPage(ipp, pIdx)
       IN  SplitPagesTrailingEmpty(safe, ipp, cursor + count, pIdx + 1,
                                   Append(acc, Slice(safe, cursor, cursor + count)))
  ELSE acc

RECURSIVE SplitPages(_, _, _, _, _)
SplitPages(safe, ipp, cursor, pIdx, acc) ==
  IF cursor < Len(safe)
  THEN LET count == GetItemsPerPage(ipp, pIdx)
       IN  SplitPages(safe, ipp, cursor + count, pIdx + 1,
                      Append(acc, Slice(safe, cursor, cursor + count)))
  ELSE acc

\* --- page geometry (1/100 pt)
A4Short == 59528

A4Long == 84189

PageWidth(o) == IF o = "landscape" THEN A4Long ELSE A4Short

PageHeight(o) == IF o = "landscape" THEN A4Short ELSE A4Long

ContentWidth(o) == PageWidth(o.orientation) - o.marginPt * 2

ContentHeight(o) == PageHeight(o.orientation) - o.marginPt * 2

\* what html2canvas may hand back: <<canvas.width, canvas.height>> in px
CanvasSizes == {<<1560, 1100>>, <<1560, 3000>>}

GeomCanvasSizes == CanvasSizes \cup {<<1560, 2206>>, <<1040, 4001>>, <<1, 1>>, <<1960, 1>>}

PlaceImageNotCentred(o, canvas) ==
  LET contentWidth == RInt(ContentWidth(o))
      contentHeight == RInt(ContentHeight(o))
      imgHeightRaw == RDiv(RMul(RInt(canvas[2]), contentWidth), RInt(canvas[1]))
      ratio == RDiv(contentHeight, imgHeightRaw)
  IN  [x |-> RInt(o.marginPt),
       y |-> RInt(o.marginPt),
       renderWidth |-> IF RLt(contentHeight, imgHeightRaw)
                       THEN RMul(contentWidth, ratio) ELSE contentWidth,
       renderHeight |-> IF RLt(contentHeight, imgHeightRaw)
                        THEN contentHeight ELSE imgHeightRaw,
       imgHeightRaw |-> imgHeightRaw]

\* lines 363-376: where and how large the page image is placed
PlaceImage(o, canvas) ==
  LET contentWidth == RInt(ContentWidth(o))
      contentHeight == RInt(ContentHeight(o))
      imgWidthRaw == contentWidth
      imgHeightRaw == RDiv(RMul(RInt(canvas[2]), imgWidthRaw), RInt(canvas[1]))
      ratio == RDiv(contentHeight, imgHeightRaw)
  IN  IF RLt(contentHeight, imgHeightRaw)
      THEN [x |-> RAdd(RInt(o.marginPt),
                       RDiv(RSub(contentWidth, RMul(imgWidthRaw, ratio)), RInt(2))),
            y |-> RInt(o.marginPt),
            renderWidth |-> RMul(imgWidthRaw, ratio),
            renderHeight |-> contentHeight,
            imgHeightRaw |-> imgHeightRaw]
      ELSE [x |-> RInt(o.marginPt),
            y |-> RInt(o.marginPt),
            renderWidth |-> imgWidthRaw,
            renderHeight |-> imgHeightRaw,
            imgHeightRaw |-> imgHeightRaw]

\* Math.round of a number given in halves
MathRound(v) == (v[2] + 1) \div 2

\* resolvedWrapperWidthPx (lines 247-248), px
ResolvedWrapperWidthPxRaw(o) == MathRound(o.wrapperWidthPx)

ResolvedWrapperWidthPx(o) ==
  LET requestedWidthPx == o.wrapperWidthPx
  IN  Min(980, Max(520, IF IsFinite(requestedWidthPx) THEN MathRound(requestedWidthPx) ELSE 780))

\* headerBuilder({ pageIndex, totalPages }) (lines 320-321)
HeaderCallOneBased(o, pgs, pIdx) ==
  IF o.headerBuilder THEN << <<pIdx + 1, Len(pgs)>> >> ELSE <<>>

HeaderCall(o, pgs, pIdx) ==
  IF o.headerBuilder THEN << <<pIdx, Len(pgs)>> >> ELSE <<>>

\* the children appended to the wrapper, in order (lines 267-350): the
\* watermark layer with or without a tile image, the header, the cloned blocks
WrapperLayersAlwaysWatermark(o, pgs, pIdx) ==
  << <<"watermark", o.ctx2d>> >>
    \o [k \in 1..Len(HeaderCall(o, pgs, pIdx)) |-> <<"header">> \o HeaderCall(o, pgs, pIdx)[k]]
    \o [k \in 1..Len(pgs[pIdx + 1]) |-> <<"block", pgs[pIdx + 1][k]>>]

WrapperLayersHeaderFirst(o, pgs, pIdx) ==
  [k \in 1..Len(HeaderCall(o, pgs, pIdx)) |-> <<"header">> \o HeaderCall(o, pgs, pIdx)[k]]
    \o (IF o.watermarkText # "" THEN << <<"watermark", o.ctx2d>> >> ELSE <<>>)
    \o [k \in 1..Len(pgs[pIdx + 1]) |-> <<"block", pgs[pIdx + 1][k]>>]

WrapperLayers(o, pgs, pIdx) ==
  (IF o.watermarkText # "" THEN << <<"watermark", o.ctx2d>> >> ELSE <<>>)
    \o [k \in 1..Len(HeaderCall(o, pgs, pIdx)) |-> <<"header">> \o HeaderCall(o, pgs, pIdx)[k]]
    \o [k \in 1..Len(pgs[pIdx + 1]) |-> <<"block", pgs[pIdx + 1][k]>>]

\* ignoreElements (lines 358-360): el.matches(ignoreSelector). The watermark
\* layer is a div that is given inline styles only (lines 268-280, 312-313)
\* and the header is the caller's element; of the blocks those in
\* ignoredBlocks match.
IgnoreElements(o, layer) ==
  /\ o.ignoreSelector # ""
  /\ layer[1] = "block"
  /\ layer[2] \in o.ignoredBlocks

\* the off-screen wrapper built for one page (lines 251-350), and in `visible`
\* the children html2canvas does not skip (lines 354-361)
Wrapper(o, pgs, pIdx) ==
  [page |-> pIdx, items |-> pgs[pIdx + 1],
   width |-> ResolvedWrapperWidthPx(o),
   layers |-> WrapperLayers(o, pgs, pIdx),
   visible |-> SelectSeq(WrapperLayers(o, pgs, pIdx), LAMBDA l : ~IgnoreElements(o, l))]

\* `if (pageItems.length === 0) continue;` : the next index the loop stops at
RECURSIVE NextPageToStage(_, _)
NextPageToStage(pgs, from) ==
  IF from < Len(pgs) /\ Len(pgs[from + 1]) = 0
  THEN NextPageToStage(pgs, from + 1)
  ELSE from

\* The capture loop from index `from` up to its next suspension point: either
\* a wrapper is staged and html2canvas is awaited, or the loop is over and the
\* document is saved.
RunLoopFrom(o, pgs, from, bodyNow, opsNow) ==
  LET i == NextPageToStage(pgs, from)
  IN  IF i < Len(pgs)
      THEN /\ pageIndex' = i
           /\ body' = bodyNow \cup {Wrapper(o, pgs, i)}
           /\ h2cCalls' = Append(h2cCalls, i)
           /\ headerCalls' = headerCalls \o HeaderCall(o, pgs, i)
           /\ pdfOps' = opsNow
           /\ pc' = "capturing"
      ELSE /\ pageIndex' = i
           /\ body' = bodyNow
           /\ h2cCalls' = h2cCalls
           /\ headerCalls' = headerCalls
           /\ pdfOps' = Append(opsNow, <<"save">>)
           /\ pc' = "done"

ExportInit ==
  /\ pc = "idle"
  /\ opts = [elements |-> [given |-> FALSE, list |-> <<>>],
             itemsPerPage |-> <<"const", <<Num(0)>> >>,
             orientation |-> "landscape", marginPt |-> 2400,
             wrapperWidthPx |-> Num(1560), watermarkText |-> "",
             headerBuilder |-> FALSE, ctx2d |-> TRUE,
             ignoreSelector |-> "", ignoredBlocks |-> {}]
  /\ pdf = FALSE
  /\ pages = <<>>
  /\ pageIndex = 0
  /\ body = {}
  /\ h2cCalls = <<>>
  /\ headerCalls = <<>>
  /\ pdfOps = <<>>
  /\ lastPlaced = [page |-> -1]
  /\ error = "none"

\* downloadPagedElementsAsPdf(o) is called and returns at once (lines 210-211)
CallNoOp(o) ==
  /\ pc = "idle"
  /\ \/ ~o.elements.given
     \/ Len(o.elements.list) = 0
     \/ ~Truthy(o.itemsPerPage)
  /\ opts' = o
  /\ pc' = "done"
  /\ UNCHANGED <<pdf, pages, pageIndex, body, h2cCalls, headerCalls, pdfOps, lastPlaced, error>>

CallExportAnyList(o) ==
  /\ pc = "idle"
  /\ Truthy(o.itemsPerPage)
  /\ opts' = o
  /\ pdf' = TRUE
  /\ LET pgs == SplitPages(SafeElements(o.elements.list), o.itemsPerPage, 0, 0, <<>>)
     IN  /\ pages' = pgs
         /\ RunLoopFrom(o, pgs, 0, body, pdfOps)
  /\ UNCHANGED <<lastPlaced, error>>

\* downloadPagedElementsAsPdf(o) is called and runs to its first suspension
\* point (lines 213-354), or to pdf.save when no page is staged
CallExport(o) ==
  /\ pc = "idle"
  /\ o.elements.given
  /\ Len(o.elements.list) # 0
  /\ Truthy(o.itemsPerPage)
  /\ opts' = o
  /\ pdf' = TRUE
  /\ LET pgs == SplitPages(SafeElements(o.elements.list), o.itemsPerPage, 0, 0, <<>>)
     IN  /\ pages' = pgs
         /\ RunLoopFrom(o, pgs, 0, body, pdfOps)
  /\ UNCHANGED <<lastPlaced, error>>

CaptureResolvedKeepsWrapper(canvas) ==
  /\ pc = "capturing"
  /\ LET g == PlaceImage(opts, canvas)
         placed == Append(IF pageIndex > 0 THEN Append(pdfOps, <<"addPage">>) ELSE pdfOps,
                          <<"addImage", pageIndex>>)
     IN  /\ lastPlaced' = [page |-> pageIndex, canvas |-> canvas, geom |-> g]
         /\ RunLoopFrom(opts, pages, pageIndex + 1, body, placed)
  /\ UNCHANGED <<opts, pdf, pages, error>>

\* html2canvas resolves with `canvas`: the page is placed, its wrapper removed,
\* and the loop runs on to the next suspension point (lines 363-384)
CaptureResolved(canvas) ==
  /\ pc = "capturing"
  /\ LET g == PlaceImage(opts, canvas)
         placed == Append(IF pageIndex > 0 THEN Append(pdfOps, <<"addPage">>) ELSE pdfOps,
                          <<"addImage", pageIndex>>)
     IN  /\ lastPlaced' = [page |-> pageIndex, canvas |-> canvas, geom |-> g]
         /\ RunLoopFrom(opts, pages, pageIndex + 1, body \ {Wrapper(opts, pages, pageIndex)}, placed)
  /\ UNCHANGED <<opts, pdf, pages, error>>

CaptureThrewSavesPartial ==
  /\ pc = "capturing"
  /\ pc' = "rejected"
  /\ error' = "html2canvas"
  /\ body' = body \ {Wrapper(opts, pages, pageIndex)}
  /\ pdfOps' = Append(pdfOps, <<"save">>)
  /\ UNCHANGED <<opts, pdf, pages, pageIndex, h2cCalls, headerCalls, lastPlaced>>

\* html2canvas throws: the await rethrows and the call rejects (line 354; the
\* function has no try/catch/finally)
CaptureThrew ==
  /\ pc = "capturing"
  /\ pc' = "rejected"
  /\ error' = "html2canvas"
  /\ UNCHANGED <<opts, pdf, pages, pageIndex, body, h2cCalls, headerCalls, pdfOps, lastPlaced>>

\* ==================================================================
\* SingleChart.tickPlan                  src/src/components/TrendChart.tsx
\* ==================================================================
VARIABLES
  chartData,       \* prop `data`, as the list of its `time` fields (0: no time)
  containerWidth,  \* state `containerWidth` (px), set by the ResizeObserver
  chartProps,      \* props yAxisWidth, exportMode, exportWidthPx
  glyph,           \* width of one character per px of font size, in 1/1000
  tickPlan         \* the memoised plan of the latest render

tickVars == <<chartData, containerWidth, chartProps, glyph, tickPlan>>

\* widths the ResizeObserver may report (px)
ContainerWidths == {0, 60, 130, 176, 216, 276, 400}

\* stands for an exportWidthPx of Infinity: truthy, not finite
InfinitePx == 1000000

ChartPropsSet ==
  {[yAxisWidth |-> 52, exportMode |-> FALSE, exportWidthPx |-> 0],
   [yAxisWidth |-> 52, exportMode |-> TRUE, exportWidthPx |-> 0],
   [yAxisWidth |-> 110, exportMode |-> FALSE, exportWidthPx |-> 0],
   [yAxisWidth |-> 52, exportMode |-> TRUE, exportWidthPx |-> 200],
   [yAxisWidth |-> 52, exportMode |-> TRUE, exportWidthPx |-> -50],
   [yAxisWidth |-> 52, exportMode |-> TRUE, exportWidthPx |-> InfinitePx]}

\* measure(): text.length * fontSize * 0.55 without a 2D context, otherwise
\* what ctx.measureText reports for the font
FallbackGlyph == 550

GlyphWidths == {FallbackGlyph, 620}

\* 'HH:mm' and 'MM-dd' both have five characters
LabelChars == 5

Measure(chars, fontSize, g) == chars * fontSize * g

\* Array.from(new Set(times)) after .filter(Boolean): first occurrences, in order
RECURSIVE UniqueTimes(_, _)
UniqueTimes(d, seen) ==
  IF d = <<>> THEN <<>>
  ELSE IF Head(d) = 0 \/ Head(d) \in seen
       THEN UniqueTimes(Tail(d), seen)
       ELSE <<Head(d)>> \o UniqueTimes(Tail(d), seen \cup {Head(d)})

Candidates ==
  << [mode |-> "double", fontSize |-> 11, angle |-> 0],
     [mode |-> "double", fontSize |-> 10, angle |-> 0],
     [mode |-> "double", fontSize |-> 10, angle |-> -35] >>

\* cos and sin of 35 degrees, in 1/10000
Cos35 == 8192

Sin35 == 5736

\* Math.round and Math.ceil of a length given in 1/1000
RoundMilli(m) == (m + 500) \div 1000

CeilMilli(m) == (m + 999) \div 1000

CeilDiv(a, b) == (a + b - 1) \div b

\* plotWidth (px)
PlotWidth(props, cw) ==
  LET effectiveWidth == IF props.exportMode /\ props.exportWidthPx # 0
                        THEN props.exportWidthPx ELSE cw
      safeWidth == IF effectiveWidth # InfinitePx THEN effectiveWidth ELSE 0
  IN  Max(0, safeWidth - (Max(0, props.yAxisWidth) + 24))

\* widthEff of a candidate (1/1000 px)
WidthEff(cand, count, g) ==
  LET lineHeight == cand.fontSize * 1150
      labelHeight == (IF cand.mode = "double" THEN lineHeight * 2 ELSE lineHeight) + 4000
      maxW == IF count > 0 THEN Measure(LabelChars, cand.fontSize, g) ELSE 0
  IN  IF cand.angle = 0 THEN maxW
      ELSE (maxW * Cos35 + labelHeight * Sin35) \div 10000

\* perTick of a candidate (1/1000 px)
PerTick(cand, count, g) ==
  LET gap == Max(8, RoundMilli(cand.fontSize * 700))
  IN  Max(10000, WidthEff(cand, count, g) + gap * 1000)

MaxTicksThreeWithoutWidth(cand, count, g, plotWidth) ==
  IF plotWidth > 0 THEN Max(2, (plotWidth * 1000) \div PerTick(cand, count, g)) ELSE 3

MaxTicks(cand, count, g, plotWidth) ==
  IF plotWidth > 0 THEN Max(2, (plotWidth * 1000) \div PerTick(cand, count, g)) ELSE 2

\* for (let i = 0; i < count; i += step) selected.push(uniqueTimes[i])
RECURSIVE Strided(_, _, _)
Strided(times, i, step) ==
  IF i < Len(times) THEN <<times[i + 1]>> \o Strided(times, i + step, step) ELSE <<>>

SelectTicksFloorStep(times, maxTicks) ==
  LET count == Len(times)
      step == Max(1, (count - 1) \div (maxTicks - 1))
      selected == Strided(times, 0, step)
      last == times[count]
  IN  IF selected[Len(selected)] # last THEN Append(selected, last) ELSE selected

SelectTicksNoLast(times, maxTicks) ==
  LET count == Len(times)
      step == Max(1, CeilDiv(count - 1, maxTicks - 1))
  IN  Strided(times, 0, step)

SelectTicksAlwaysPush(times, maxTicks) ==
  LET count == Len(times)
      step == Max(1, CeilDiv(count - 1, maxTicks - 1))
  IN  Append(Strided(times, 0, step), times[count])

SelectTicks(times, maxTicks) ==
  LET count == Len(times)
      step == Max(1, CeilDiv(count - 1, maxTicks - 1))
      selected == Strided(times, 0, step)
      last == times[count]
  IN  IF selected[Len(selected)] # last THEN Append(selected, last) ELSE selected

ResolveStrictFit(c, times, g, plotWidth) ==
  LET cand == Candidates[c]
      count == Len(times)
      widthEff == WidthEff(cand, count, g)
      maxTicks == MaxTicks(cand, count, g, plotWidth)
      halfPad == Min(120, Max(12, CeilMilli(CeilDiv(widthEff, 2)) + 10))
      height == IF cand.angle = 0 THEN (IF cand.mode = "double" THEN 52 ELSE 40) ELSE 70
  IN  IF count < maxTicks \/ count <= 2
      THEN [cand |-> c, showAll |-> TRUE, ticks |-> <<>>, padding |-> halfPad, height |-> height]
      ELSE [cand |-> c, showAll |-> FALSE, ticks |-> SelectTicks(times, maxTicks),
            padding |-> halfPad, height |-> height]

\* resolve(cand); ticks: undefined is showAll = TRUE
Resolve(c, times, g, plotWidth) ==
  LET cand == Candidates[c]
      count == Len(times)
      widthEff == WidthEff(cand, count, g)
      maxTicks == MaxTicks(cand, count, g, plotWidth)
      halfPad == Min(120, Max(12, CeilMilli(CeilDiv(widthEff, 2)) + 10))
      height == IF cand.angle = 0 THEN (IF cand.mode = "double" THEN 52 ELSE 40) ELSE 70
  IN  IF count <= maxTicks \/ count <= 2
      THEN [cand |-> c, showAll |-> TRUE, ticks |-> <<>>, padding |-> halfPad, height |-> height]
      ELSE [cand |-> c, showAll |-> FALSE, ticks |-> SelectTicks(times, maxTicks),
            padding |-> halfPad, height |-> height]

TryCandidatesFallbackOnly(c, times, g, plotWidth) ==
  Resolve(Len(Candidates), times, g, plotWidth)

\* the candidate loop and the final fallback (lines 331-336)
RECURSIVE TryCandidates(_, _, _, _)
TryCandidates(c, times, g, plotWidth) ==
  IF c > Len(Candidates) THEN Resolve(Len(Candidates), times, g, plotWidth)
  ELSE IF Resolve(c, times, g, plotWidth).showAll THEN Resolve(c, times, g, plotWidth)
       ELSE TryCandidates(c + 1, times, g, plotWidth)

\* the useMemo body
TickPlanOf(d, cw, props, g) == TryCandidates(1, UniqueTimes(d, {}), g, PlotWidth(props, cw))

\* a chart that is not mounted with other props or measured otherwise
DefaultChartProps == [yAxisWidth |-> 52, exportMode |-> FALSE, exportWidthPx |-> 0]

TickInit ==
  /\ chartData = <<>>
  /\ containerWidth = 0
  /\ chartProps = DefaultChartProps
  /\ glyph = FallbackGlyph
  /\ tickPlan = TickPlanOf(chartData, containerWidth, chartProps, glyph)

\* TrendChart hands over data sorted by timestamp (line 93); entries without
\* a time may sit anywhere
RECURSIVE LastStamp(_)
LastStamp(d) ==
  IF d = <<>> THEN 0
  ELSE IF d[Len(d)] # 0 THEN d[Len(d)] ELSE LastStamp(SubSeq(d, 1, Len(d) - 1))

\* re-render with a data prop that has one more point
DataGrows(t) ==
  /\ Len(chartData) < MaxPoints
  /\ t = 0 \/ t >= LastStamp(chartData)
  /\ chartData' = Append(chartData, t)
  /\ tickPlan' = TickPlanOf(chartData', containerWidth, chartProps, glyph)
  /\ UNCHANGED <<containerWidth, chartProps, glyph>>

\* re-render with an empty data prop
DataCleared ==
  /\ chartData # <<>>
  /\ chartData' = <<>>
  /\ tickPlan' = TickPlanOf(chartData', containerWidth, chartProps, glyph)
  /\ UNCHANGED <<containerWidth, chartProps, glyph>>

\* the chart is mounted: props and the text-measuring environment are fixed
Mounted(p, g) ==
  /\ chartData = <<>>
  /\ containerWidth = 0
  /\ <<p, g>> # <<chartProps, glyph>>
  /\ chartProps' = p
  /\ glyph' = g
  /\ tickPlan' = TickPlanOf(chartData, containerWidth, p, g)
  /\ UNCHANGED <<chartData, containerWidth>>

\* ResizeObserver callback: setContainerWidth(w), then the memo is recomputed
Resized(w) ==
  /\ w # containerWidth
  /\ containerWidth' = w
  /\ tickPlan' = TickPlanOf(chartData, containerWidth', chartProps, glyph)
  /\ UNCHANGED <<chartData, chartProps, glyph>>

\* ==================================================================
\* specifications
\* ==================================================================
\* ==================================================================
\* downloadElementAsPdf (single block)            src/src/utils/download.ts
\* ==================================================================
VARIABLES
  legacyPc,    \* "idle" | "capturing" (awaiting html2canvas) | "slicing" (at the
               \* test of the while loop) | "done" | "rejected"
  legacyOpts,  \* the options object: element (given or not), orientation, marginPt
  legacyImg,   \* the locals imgHeight and heightLeft, in 1/100 pt
  legacyOps    \* calls made on the jsPDF document, in call order

legacyVars == <<legacyPc, legacyOpts, legacyImg, legacyOps>>

\* the loop goes on while heightLeft > 1 (pt), in 1/100 pt
SliceEpsilon == 100

MaxSlices == 20       \* draws of the image followed in one single-block export

LegacyInit ==
  /\ legacyPc = "idle"
  /\ legacyOpts = [element |-> FALSE, orientation |-> "landscape", marginPt |-> 2400]
  /\ legacyImg = [imgHeight |-> RInt(0), heightLeft |-> RInt(0)]
  /\ legacyOps = <<>>

\* downloadElementAsPdf(o) is called without element and returns (line 107)
LegacyCallNoOp(o) ==
  /\ legacyPc = "idle"
  /\ ~o.element
  /\ legacyOpts' = o
  /\ legacyPc' = "done"
  /\ UNCHANGED <<legacyImg, legacyOps>>

\* downloadElementAsPdf(o) is called and suspends in html2canvas (lines 107-121)
LegacyCall(o) ==
  /\ legacyPc = "idle"
  /\ o.element
  /\ legacyOpts' = o
  /\ legacyPc' = "capturing"
  /\ UNCHANGED <<legacyImg, legacyOps>>

\* html2canvas resolves with `canvas`: the image is drawn on the first page
\* (lines 123-138)
LegacyResolved(canvas) ==
  /\ legacyPc = "capturing"
  /\ LET imgWidth == ContentWidth(legacyOpts)
         imgHeight == RMul(RDiv(RInt(canvas[2]), RInt(canvas[1])), RInt(imgWidth))
     IN  /\ legacyOps' = << <<"addImage", RInt(legacyOpts.marginPt)>> >>
         /\ legacyImg' = [imgHeight |-> imgHeight,
                          heightLeft |-> RSub(imgHeight, RInt(ContentHeight(legacyOpts)))]
  /\ legacyPc' = "slicing"
  /\ UNCHANGED legacyOpts

\* html2canvas throws: the call rejects (line 109)
LegacyThrew ==
  /\ legacyPc = "capturing"
  /\ legacyPc' = "rejected"
  /\ UNCHANGED <<legacyOpts, legacyImg, legacyOps>>

LegacySliceKeepsPosition ==
  /\ legacyPc = "slicing"
  /\ RLt(RInt(SliceEpsilon), legacyImg.heightLeft)
  /\ Len(legacyOps) < 2 * MaxSlices - 1
  /\ legacyOps' = legacyOps \o << <<"addPage">>, <<"addImage", RInt(legacyOpts.marginPt)>> >>
  /\ legacyImg' = [legacyImg EXCEPT !.heightLeft = RSub(@, RInt(ContentHeight(legacyOpts)))]
  /\ UNCHANGED <<legacyPc, legacyOpts>>

\* one iteration of the while loop (lines 140-145)
LegacySlice ==
  /\ legacyPc = "slicing"
  /\ RLt(RInt(SliceEpsilon), legacyImg.heightLeft)
  /\ Len(legacyOps) < 2 * MaxSlices - 1
  /\ LET position == RSub(RInt(legacyOpts.marginPt),
                          RSub(legacyImg.imgHeight, legacyImg.heightLeft))
     IN  legacyOps' = legacyOps \o << <<"addPage">>, <<"addImage", position>> >>
  /\ legacyImg' = [legacyImg EXCEPT !.heightLeft = RSub(@, RInt(ContentHeight(legacyOpts)))]
  /\ UNCHANGED <<legacyPc, legacyOpts>>

\* the loop ends and the document is saved (lines 140, 147)
LegacySave ==
  /\ legacyPc = "slicing"
  /\ ~RLt(RInt(SliceEpsilon), legacyImg.heightLeft)
  /\ legacyOps' = Append(legacyOps, <<"save">>)
  /\ legacyPc' = "done"
  /\ UNCHANGED <<legacyOpts, legacyImg>>

\* ==================================================================
\* PondDetail: trend fetch effect and handleExportTrendPdf
\*                                                   src/unnamed/part_016
\* ==================================================================
VARIABLES
  dateRange,          \* state `dateRange`, as the identity of the selected range
  fetchSeq,           \* number of fetchTrend() runs started so far
  fetches,            \* fetchTrend() runs still in flight: [seq, range]
  trendLoading,       \* state `trendLoading`
  trendData,          \* state `trendData`: which fetch set it, its length, and
                      \* how many charts TrendChart renders for it
  exportingTrendPdf,  \* state `exportingTrendPdf`
  activeExports,      \* executions of handleExportTrendPdf past its guards that
                      \* have not returned yet
  exportPc,           \* handleExportTrendPdf: "idle" | "started" (before the first
                      \* readiness check) | "sleeping" (in the 50 ms timeout) |
                      \* "returned" (waitForCharts returned) | "exporting"
                      \* (awaiting downloadPagedElementsAsPdf)
  waitChecks,         \* readiness checks performed by waitForCharts
  exportHost,         \* the off-screen host: mounted or not, the charts it will
                      \* render, and per rendered export item whether its width > 0
  waitResult          \* the list waitForCharts returned

pondVars == <<dateRange, fetchSeq, fetches, trendLoading, trendData, exportingTrendPdf,
              activeExports,
              exportPc, waitChecks, exportHost, waitResult>>

MaxFetches == 2       \* fetchTrend() runs started in one behaviour

\* `for (let i = 0; i < 30; i++)` (line 407)
MaxWaitChecks == 30

\* ranges the date picker may hand to setDateRange; 0 is the initial last 7 days
DateRanges == {0, 1}

\* what a settled fetch may yield: nothing, records without any charted
\* parameter (TrendChart.tsx line 113), records of two charted parameters
TrendResults == {[len |-> 0, charts |-> 0], [len |-> 3, charts |-> 0], [len |-> 3, charts |-> 2]}

\* after mount: the effect has run once for the initial range
PondInit ==
  /\ dateRange = 0
  /\ fetchSeq = 1
  /\ fetches = {[seq |-> 1, range |-> 0]}
  /\ trendLoading = TRUE
  /\ trendData = [seq |-> 0, range |-> 0, len |-> 0, charts |-> 0]
  /\ exportingTrendPdf = FALSE
  /\ activeExports = 0
  /\ exportPc = "idle"
  /\ waitChecks = 0
  /\ exportHost = [mounted |-> FALSE, charts |-> 0, items |-> <<>>]
  /\ waitResult = <<>>

\* the date picker calls setDateRange(r); the effect runs: setTrendLoading(true)
\* and fetchTrend() (lines 299-325, 760)
DateRangeChanged(r) ==
  /\ fetchSeq < MaxFetches
  /\ dateRange' = r
  /\ fetchSeq' = fetchSeq + 1
  /\ fetches' = fetches \cup {[seq |-> fetchSeq + 1, range |-> r]}
  /\ trendLoading' = TRUE
  /\ UNCHANGED <<trendData, exportingTrendPdf, activeExports, exportPc, waitChecks, exportHost, waitResult>>

\* Promise.all of one fetchTrend() resolves (lines 309-317)
FetchSucceeded(f, res) ==
  /\ f \in fetches
  /\ fetches' = fetches \ {f}
  /\ trendData' = [seq |-> f.seq, range |-> f.range, len |-> res.len, charts |-> res.charts]
  /\ trendLoading' = FALSE
  /\ UNCHANGED <<dateRange, fetchSeq, exportingTrendPdf, activeExports, exportPc, waitChecks, exportHost,
                 waitResult>>

\* Promise.all of one fetchTrend() rejects (lines 315-320)
FetchFailed(f) ==
  /\ f \in fetches
  /\ fetches' = fetches \ {f}
  /\ trendData' = [seq |-> f.seq, range |-> f.range, len |-> 0, charts |-> 0]
  /\ trendLoading' = FALSE
  /\ UNCHANGED <<dateRange, fetchSeq, exportingTrendPdf, activeExports, exportPc, waitChecks, exportHost,
                 waitResult>>

ExportClickedNoFlagGuard ==
  /\ ~trendLoading
  /\ trendData.len # 0
  /\ exportingTrendPdf' = TRUE
  /\ activeExports' = activeExports + 1
  /\ exportHost' = [mounted |-> TRUE, charts |-> trendData.charts, items |-> <<>>]
  /\ waitChecks' = 0
  /\ waitResult' = <<>>
  /\ exportPc' = "started"
  /\ UNCHANGED <<dateRange, fetchSeq, fetches, trendLoading, trendData>>

\* a click on the export button passes the guards of handleExportTrendPdf; the
\* host is mounted and the export charts handed to React (lines 364-404).
\* The handler and the button are those of the latest render: React commits
\* the state set in a click handler before it dispatches the next click.
ExportClicked ==
  /\ ~exportingTrendPdf
  /\ ~trendLoading
  /\ trendData.len # 0
  /\ exportingTrendPdf' = TRUE
  /\ activeExports' = activeExports + 1
  /\ exportHost' = [mounted |-> TRUE, charts |-> trendData.charts, items |-> <<>>]
  /\ waitChecks' = 0
  /\ waitResult' = <<>>
  /\ exportPc' = "started"
  /\ UNCHANGED <<dateRange, fetchSeq, fetches, trendLoading, trendData>>

\* React commits the export charts: the export items exist, not yet laid out
HostRendered ==
  /\ exportHost.mounted
  /\ exportHost.items = <<>>
  /\ exportHost.charts > 0
  /\ exportHost' = [exportHost EXCEPT !.items = [k \in 1..exportHost.charts |-> FALSE]]
  /\ UNCHANGED <<dateRange, fetchSeq, fetches, trendLoading, trendData, exportingTrendPdf, activeExports,
                 exportPc, waitChecks, waitResult>>

\* the browser lays out export item k: its width becomes non-zero
ItemLaidOut(k) ==
  /\ exportHost.mounted
  /\ k \in 1..Len(exportHost.items)
  /\ ~exportHost.items[k]
  /\ exportHost' = [exportHost EXCEPT !.items[k] = TRUE]
  /\ UNCHANGED <<dateRange, fetchSeq, fetches, trendLoading, trendData, exportingTrendPdf, activeExports,
                 exportPc, waitChecks, waitResult>>

ReadySome(list) == Len(list) > 0 /\ \E k \in 1..Len(list) : list[k]

\* `ready` (line 410)
Ready(list) == Len(list) > 0 /\ \A k \in 1..Len(list) : list[k]

\* one pass through the loop body of waitForCharts (lines 408-412)
ReadinessCheck ==
  /\ waitChecks' = waitChecks + 1
  /\ IF Ready(exportHost.items)
       THEN /\ waitResult' = exportHost.items
            /\ exportPc' = "returned"
       ELSE /\ waitResult' = waitResult
            /\ exportPc' = "sleeping"

\* waitForCharts is entered and makes its first check (lines 406-411, 417)
WaitEntered ==
  /\ exportPc = "started"
  /\ ReadinessCheck
  /\ UNCHANGED <<dateRange, fetchSeq, fetches, trendLoading, trendData, exportingTrendPdf, activeExports,
                 exportHost>>

\* the 50 ms timer fires: the next check, or after the last one the final
\* query (lines 407-414)
WaitTimerFired ==
  /\ exportPc = "sleeping"
  /\ IF waitChecks < MaxWaitChecks
       THEN ReadinessCheck
       ELSE /\ waitResult' = exportHost.items
            /\ exportPc' = "returned"
            /\ waitChecks' = waitChecks
  /\ UNCHANGED <<dateRange, fetchSeq, fetches, trendLoading, trendData, exportingTrendPdf, activeExports,
                 exportHost>>

\* the options handleExportTrendPdf passes (lines 421-577); exportWidthPx is
\* Math.round(595.28 * 96 / 72) = 794
CallerOptions(items) ==
  [elements |-> [given |-> TRUE, list |-> [k \in 1..Len(items) |-> k]],
   itemsPerPage |-> <<"fn", <<Num(6), Num(8)>> >>,
   orientation |-> "portrait", marginPt |-> 0,
   wrapperWidthPx |-> Num(1588), watermarkText |-> "wm", headerBuilder |-> TRUE,
   ctx2d |-> TRUE, ignoreSelector |-> "[data-export-ignore]", ignoredBlocks |-> {}]

\* the handler calls downloadPagedElementsAsPdf with the items (lines 421-577)
ExportCalled ==
  /\ exportPc = "returned"
  /\ CallNoOp(CallerOptions(waitResult)) \/ CallExport(CallerOptions(waitResult))
  /\ exportPc' = "exporting"
  /\ UNCHANGED <<dateRange, fetchSeq, fetches, trendLoading, trendData, exportingTrendPdf, activeExports,
                 waitChecks, exportHost, waitResult>>

HandlerFinallySkippedOnError ==
  /\ exportPc = "exporting"
  /\ pc \in {"done", "rejected"}
  /\ exportHost' = IF pc = "rejected" THEN exportHost
                  ELSE [mounted |-> FALSE, charts |-> 0, items |-> <<>>]
  /\ exportingTrendPdf' = (pc = "rejected")
  /\ exportPc' = "idle"
  /\ activeExports' = activeExports - 1
  /\ pc' = "idle"
  /\ pdf' = FALSE
  /\ pages' = <<>>
  /\ pageIndex' = 0
  /\ h2cCalls' = <<>>
  /\ headerCalls' = <<>>
  /\ pdfOps' = <<>>
  /\ lastPlaced' = [page |-> -1]
  /\ error' = "none"
  /\ UNCHANGED <<opts, body, dateRange, fetchSeq, fetches, trendLoading, trendData,
                 waitChecks, waitResult>>

\* downloadPagedElementsAsPdf has settled; the finally block runs and the
\* handler returns (lines 578-591)
HandlerFinally ==
  /\ exportPc = "exporting"
  /\ pc \in {"done", "rejected"}
  /\ exportHost' = [mounted |-> FALSE, charts |-> 0, items |-> <<>>]
  /\ exportingTrendPdf' = FALSE
  /\ exportPc' = "idle"
  /\ activeExports' = activeExports - 1
  /\ pc' = "idle"
  /\ pdf' = FALSE
  /\ pages' = <<>>
  /\ pageIndex' = 0
  /\ h2cCalls' = <<>>
  /\ headerCalls' = <<>>
  /\ pdfOps' = <<>>
  /\ lastPlaced' = [page |-> -1]
  /\ error' = "none"
  /\ UNCHANGED <<opts, body, dateRange, fetchSeq, fetches, trendLoading, trendData,
                 waitChecks, waitResult>>

vars == <<exportVars, tickVars, legacyVars, pondVars>>

Init == ExportInit /\ TickInit /\ LegacyInit /\ PondInit

\* orientation, marginPt, wrapperWidthPx (780), watermarkText and
\* headerBuilder at their defaults; ctx2d: canvas.getContext('2d') is available
DefaultOptions(e, c) ==
  [elements |-> e, itemsPerPage |-> c, orientation |-> "landscape", marginPt |-> 2400,
   wrapperWidthPx |-> Num(1560), watermarkText |-> "", headerBuilder |-> FALSE,
   ctx2d |-> TRUE, ignoreSelector |-> "", ignoredBlocks |-> {}]

\* downloadPagedElementsAsPdf is called with default page geometry
Call ==
  /\ pc = "idle"
  /\ \E e \in ElementArgs, c \in Capacities :
        CallNoOp(DefaultOptions(e, c)) \/ CallExport(DefaultOptions(e, c))

\* one paged export, every element list and capacity
Next ==
  \/ Call /\ UNCHANGED <<tickVars, legacyVars, pondVars>>
  \/ \E canvas \in CanvasSizes : CaptureResolved(canvas) /\ UNCHANGED <<tickVars, legacyVars, pondVars>>
  \/ CaptureThrew /\ UNCHANGED <<tickVars, legacyVars, pondVars>>

Spec == Init /\ [][Next]_vars

\* one chart over its renders
NextTick ==
  \/ \E p \in ChartPropsSet, g \in GlyphWidths : Mounted(p, g) /\ UNCHANGED <<exportVars, legacyVars, pondVars>>
  \/ \E t \in 0..MaxStamp : DataGrows(t) /\ UNCHANGED <<exportVars, legacyVars, pondVars>>
  \/ DataCleared /\ UNCHANGED <<exportVars, legacyVars, pondVars>>
  \/ \E w \in ContainerWidths : Resized(w) /\ UNCHANGED <<exportVars, legacyVars, pondVars>>

SpecTick == Init /\ [][NextTick]_vars

\* page geometries a caller may ask for: both orientations; marginPt 0 (the
\* repository's caller), 24 (the default) and 100, in 1/100 pt
Orientations == {"portrait", "landscape"}

Margins == {0, 2400, 10000}

GeomElementLists == {l \in ElementLists : Len(l) \in 1..2 /\ NullsIn(l) = 0}

GeomOptions ==
  {[elements |-> [given |-> TRUE, list |-> l], itemsPerPage |-> <<"const", <<Num(2)>> >>,
    orientation |-> o, marginPt |-> m,
    wrapperWidthPx |-> Num(1560), watermarkText |-> "", headerBuilder |-> FALSE,
    ctx2d |-> TRUE, ignoreSelector |-> "", ignoredBlocks |-> {}] :
     l \in GeomElementLists, o \in Orientations, m \in Margins}

CallGeom ==
  /\ pc = "idle"
  /\ \E o \in GeomOptions : CallExport(o)

\* paged exports over page geometries and captured canvas sizes
NextGeom ==
  \/ CallGeom /\ UNCHANGED <<tickVars, legacyVars, pondVars>>
  \/ \E canvas \in GeomCanvasSizes : CaptureResolved(canvas) /\ UNCHANGED <<tickVars, legacyVars, pondVars>>
  \/ CaptureThrew /\ UNCHANGED <<tickVars, legacyVars, pondVars>>

SpecGeom == Init /\ [][NextGeom]_vars

\* widths a caller may pass as wrapperWidthPx: 300, 520, 780, 794 (the
\* repository's caller), 794.5, 980, 1200, NaN, Infinity
WrapperWidths ==
  {Num(600), Num(1040), Num(1560), Num(1588), Num(1589), Num(1960), Num(2400), NaN, Infinity}

\* ignoreSelector absent, or the repository caller's attribute selector with
\* no block or with block 1 carrying the attribute
IgnoreOptions ==
  {<<"", {}>>, <<"[data-export-ignore]", {}>>, <<"[data-export-ignore]", {1}>>}

StageElementLists == {l \in ElementLists : Len(l) \in 1..3 /\ NullsIn(l) = 0}

StageOptions ==
  {[elements |-> [given |-> TRUE, list |-> l], itemsPerPage |-> <<"const", <<Num(2)>> >>,
    orientation |-> "portrait", marginPt |-> 0,
    wrapperWidthPx |-> w, watermarkText |-> t, headerBuilder |-> h, ctx2d |-> c,
    ignoreSelector |-> g[1], ignoredBlocks |-> g[2]] :
     l \in StageElementLists, w \in WrapperWidths, t \in {"", "wm"},
     h \in BOOLEAN, c \in BOOLEAN, g \in IgnoreOptions}

CallStage ==
  /\ pc = "idle"
  /\ \E o \in StageOptions : CallExport(o)

\* paged exports over wrapper widths, watermark texts, header builders and
\* 2D-context availability
NextStage ==
  \/ CallStage /\ UNCHANGED <<tickVars, legacyVars, pondVars>>
  \/ \E canvas \in CanvasSizes : CaptureResolved(canvas) /\ UNCHANGED <<tickVars, legacyVars, pondVars>>
  \/ CaptureThrew /\ UNCHANGED <<tickVars, legacyVars, pondVars>>

SpecStage == Init /\ [][NextStage]_vars

\* single-block exports: both orientations; marginPt 0, 24 (the default) and
\* 51.03 (portrait content box 493.22pt x 739.83pt), 297.64 (half the short
\* side of the page) and 300, in 1/100 pt
LegacyMargins == {0, 2400, 5103, 29764, 30000}

LegacyOptions ==
  {[element |-> e, orientation |-> o, marginPt |-> m] :
     e \in BOOLEAN, o \in Orientations, m \in LegacyMargins}

\* canvases html2canvas may hand back for the single block
LegacyCanvasSizes ==
  CanvasSizes \cup {<<1000, 3450>>, <<1000, 3000>>, <<2000, 2830>>, <<1000, 12000>>}

LegacyCalled ==
  /\ legacyPc = "idle"
  /\ \E o \in LegacyOptions : LegacyCallNoOp(o) \/ LegacyCall(o)

\* one single-block export
NextLegacy ==
  \/ LegacyCalled /\ UNCHANGED <<exportVars, tickVars, pondVars>>
  \/ \E canvas \in LegacyCanvasSizes :
        LegacyResolved(canvas) /\ UNCHANGED <<exportVars, tickVars, pondVars>>
  \/ LegacyThrew /\ UNCHANGED <<exportVars, tickVars, pondVars>>
  \/ LegacySlice /\ UNCHANGED <<exportVars, tickVars, pondVars>>
  \/ LegacySave /\ UNCHANGED <<exportVars, tickVars, pondVars>>

SpecLegacy == Init /\ [][NextLegacy]_vars

LegacySliceStep == LegacySlice /\ UNCHANGED <<exportVars, tickVars, pondVars>>

LegacySaveStep == LegacySave /\ UNCHANGED <<exportVars, tickVars, pondVars>>

\* the slicing loop is synchronous code: it keeps running
SpecLegacyFair ==
  /\ SpecLegacy
  /\ WF_vars(LegacySliceStep)
  /\ WF_vars(LegacySaveStep)

\* the canvas html2canvas hands back for a staged page of the trend report
PondCanvasSizes == {<<1588, 2246>>}

PondFetchSettles ==
  \E f \in fetches :
    \/ \E res \in TrendResults : FetchSucceeded(f, res)
    \/ FetchFailed(f)

PondWaitEntered == WaitEntered /\ UNCHANGED <<exportVars, tickVars, legacyVars>>

PondWaitTimerFired == WaitTimerFired /\ UNCHANGED <<exportVars, tickVars, legacyVars>>

PondExportCalled == ExportCalled /\ UNCHANGED <<tickVars, legacyVars>>

\* the pond page: date-range changes, fetch completions, clicks on the export
\* button, and the export they start
NextPond ==
  \/ \E r \in DateRanges : DateRangeChanged(r) /\ UNCHANGED <<exportVars, tickVars, legacyVars>>
  \/ PondFetchSettles /\ UNCHANGED <<exportVars, tickVars, legacyVars>>
  \/ ExportClicked /\ UNCHANGED <<exportVars, tickVars, legacyVars>>
  \/ HostRendered /\ UNCHANGED <<exportVars, tickVars, legacyVars>>
  \/ \E k \in 1..2 : ItemLaidOut(k) /\ UNCHANGED <<exportVars, tickVars, legacyVars>>
  \/ PondWaitEntered
  \/ PondWaitTimerFired
  \/ PondExportCalled
  \/ \E canvas \in PondCanvasSizes :
        /\ exportPc = "exporting"
        /\ CaptureResolved(canvas)
        /\ UNCHANGED <<tickVars, legacyVars, pondVars>>
  \/ exportPc = "exporting" /\ CaptureThrew /\ UNCHANGED <<tickVars, legacyVars, pondVars>>
  \/ HandlerFinally /\ UNCHANGED <<tickVars, legacyVars>>

SpecPond == Init /\ [][NextPond]_vars

\* timers fire and settled promises resume the handler
SpecPondFair ==
  /\ SpecPond
  /\ WF_vars(PondWaitEntered)
  /\ WF_vars(PondWaitTimerFired)
  /\ WF_vars(PondExportCalled)

\* ==================================================================
\* properties
\* ==================================================================
Called == pc # "idle"

Returned == pc \in {"done", "rejected"}

InputList == opts.elements.list

\* the blocks of the input list: its entries that are elements
InputBlocks == SelectSeq(InputList, LAMBDA e : e # 0)

\* the pages have been built (the call got past its two early returns)
PagesBuilt == pdf

\* the raw number the caller's capacity yields for page index i, in halves
RawCap(i) == CallItemsPerPage(opts.itemsPerPage, i)

\* the set of raw capacity values the caller's capacity can yield
RawCapRange == {opts.itemsPerPage[2][k] : k \in DOMAIN opts.itemsPerPage[2]}

\* C1: once the call has returned or rejected, no staging wrapper of it is
\* still appended to document.body; in particular not after html2canvas threw.
C1_NoWrapperLeftMounted == Returned => body = {}

\* C2: the pages are contiguous, order-preserving slices of the input's
\* blocks, and concatenated in page order they give every block of the input
\* exactly once, in input order.
C2_PagesPartitionInput ==
  PagesBuilt =>
    /\ Flatten(pages) = InputBlocks
    /\ \A i \in 1..Len(pages) :
         pages[i] = SubSeq(InputBlocks, SumLens(pages, i - 1) + 1, SumLens(pages, i))
    /\ \A j, k \in 1..Len(Flatten(pages)) :
         j # k => Flatten(pages)[j] # Flatten(pages)[k]

C2_Witness ==
  /\ PagesBuilt
  /\ Len(pages) >= 3
  /\ NullsIn(InputList) > 0
  /\ opts.itemsPerPage[1] = "fn"
  /\ Len(pages[1]) # Len(pages[2])

\* C3 as stated: whatever number the capacity yields for a page index, every
\* page but the last holds exactly that number of blocks.
C3_PageHoldsRawCapacity ==
  PagesBuilt =>
    \A i \in 1..(Len(pages) - 1) :
      /\ RawCap(i - 1)[1] = "num"
      /\ 2 * Len(pages[i]) = RawCap(i - 1)[2]

\* C3 amended: every page but the last holds floor(c) blocks when the
\* capacity value c for its index is a finite number >= 1, and one block
\* otherwise (c below 1, NaN or infinite).
C3_PageHoldsClampedCapacity ==
  PagesBuilt =>
    \A i \in 1..(Len(pages) - 1) :
      LET c == RawCap(i - 1)
      IN  IF c[1] = "num" /\ c[2] >= 2
          THEN /\ 2 * Len(pages[i]) <= c[2]
               /\ c[2] < 2 * (Len(pages[i]) + 1)
          ELSE Len(pages[i]) = 1

C3_Witness ==
  /\ PagesBuilt
  /\ Len(pages) >= 3
  /\ RawCap(0) = Num(5)
  /\ RawCap(1) = Num(1)
  /\ Len(pages[1]) = 2
  /\ Len(pages[2]) = 1

\* c(0) + ... + c(i - 1) for integer capacities
RECURSIVE CapSum(_)
CapSum(i) == IF i = 0 THEN 0 ELSE (RawCap(i - 1)[2] \div 2) + CapSum(i - 1)

IntegerCaps == \A v \in RawCapRange : v[1] = "num" /\ v[2] >= 2 /\ v[2] % 2 = 0

\* C4: with n >= 1 blocks and integer capacities >= 1, page i holds the
\* blocks at positions [c(0)+..+c(i-1), min(n, c(0)+..+c(i))); a constant
\* capacity k gives ceil(n/k) pages, the last with n - k*(ceil(n/k)-1)
\* blocks; 7 blocks with c(0) = 3, c(i>0) = 4 give [b0,b1,b2], [b3,b4,b5,b6].
C4_PagePositions ==
  (PagesBuilt /\ IntegerCaps /\ Len(InputBlocks) >= 1) =>
    LET n == Len(InputBlocks)
        p == Len(pages)
    IN  /\ p >= 1
        /\ CapSum(p - 1) < n
        /\ n <= CapSum(p)
        /\ \A i \in 0..(p - 1) :
             pages[i + 1] = SubSeq(InputBlocks, CapSum(i) + 1, Min(n, CapSum(i + 1)))
        /\ opts.itemsPerPage[1] = "const" =>
             LET k == RawCap(0)[2] \div 2
             IN  /\ p = (n + k - 1) \div k
                 /\ Len(pages[p]) = n - k * (p - 1)
                 /\ \A i \in 1..(p - 1) : Len(pages[i]) = k
        /\ (InputList = <<1, 2, 3, 4, 5, 6, 7>> /\ opts.itemsPerPage = <<"fn", <<Num(6), Num(8)>> >>) =>
             pages = << <<1, 2, 3>>, <<4, 5, 6, 7>> >>

C4_Witness ==
  /\ pc = "done"
  /\ InputList = <<1, 2, 3, 4, 5, 6, 7>>
  /\ opts.itemsPerPage = <<"fn", <<Num(6), Num(8)>> >>
  /\ Len(pages) = 2
  /\ Len(h2cCalls) = 2

NothingDone ==
  /\ pc = "done"
  /\ error = "none"
  /\ ~pdf
  /\ pages = <<>>
  /\ body = {}
  /\ h2cCalls = <<>>
  /\ pdfOps = <<>>

\* C5: a call with an empty or missing element list does nothing: no wrapper
\* is mounted, html2canvas is not invoked, nothing is saved, nothing is raised.
C5_EmptyListIsNoOp ==
  (Called /\ (~opts.elements.given \/ Len(InputList) = 0)) => NothingDone

C5_Witness ==
  /\ pc = "done"
  /\ opts.elements.given
  /\ Len(InputList) = 0
  /\ Truthy(opts.itemsPerPage)

CapsAllBelowOne == \A v \in RawCapRange : v[1] = "num" /\ v[2] < 2

C7_CaptureFailureIsFatal ==
  /\ [](pc = "rejected" =>
          /\ error = "html2canvas"
          /\ h2cCalls # <<>>
          /\ h2cCalls[Len(h2cCalls)] = pageIndex
          /\ \A j, k \in 1..Len(h2cCalls) : j < k => h2cCalls[j] < h2cCalls[k]
          /\ \A w \in body : w.page <= pageIndex
          /\ \A k \in 1..Len(pdfOps) : pdfOps[k] # <<"save">>
          /\ \A k \in 1..Len(pdfOps) : pdfOps[k] # <<"addImage", pageIndex>>)
  /\ [][pc = "rejected" => UNCHANGED exportVars]_vars

C7_Witness ==
  /\ pc = "rejected"
  /\ pageIndex = 1
  /\ Len(pages) >= 3
  /\ pdfOps = << <<"addImage", 0>> >>

\* the page image placed last, and the content box it was placed in
Placed == lastPlaced.page # -1

WidthFitHeight == Rat(lastPlaced.canvas[2] * ContentWidth(opts), lastPlaced.canvas[1])

\* C8: the placed rectangle lies inside the content box; when the width-fit
\* height exceeds the content height, width and height are both the
\* width-fit size times contentHeight / height and the image is centred
\* horizontally; otherwise it is placed at the content width, not enlarged.
C8_PlacedInsideContentBox ==
  (Placed /\ ContentWidth(opts) > 0 /\ ContentHeight(opts) > 0) =>
    LET g == lastPlaced.geom
        cw == RInt(ContentWidth(opts))
        ch == RInt(ContentHeight(opts))
        m == RInt(opts.marginPt)
        right == RAdd(g.x, g.renderWidth)
    IN  /\ RLe(g.renderWidth, cw)
        /\ RLe(g.renderHeight, ch)
        /\ RLe(m, g.x)
        /\ RLe(right, RAdd(m, cw))
        /\ g.y = m
        /\ IF RLt(ch, WidthFitHeight)
           THEN /\ RDiv(g.renderWidth, cw) = RDiv(ch, WidthFitHeight)
                /\ RDiv(g.renderHeight, WidthFitHeight) = RDiv(ch, WidthFitHeight)
                /\ RLt(g.renderWidth, cw)
                /\ RSub(g.x, m) = RSub(RAdd(m, cw), right)
           ELSE /\ g.renderWidth = cw
                /\ g.renderHeight = WidthFitHeight
                /\ g.x = m

C8_Witness ==
  /\ Placed
  /\ opts.orientation = "portrait"
  /\ opts.marginPt = 0
  /\ RLt(RInt(ContentHeight(opts)), WidthFitHeight)
  /\ RLt(RInt(0), lastPlaced.geom.x)

\* the distinct timestamps of the chart's data, in input order
Times == UniqueTimes(chartData, {})

PositionOf(t) == CHOOSE i \in 1..Len(Times) : Times[i] = t

ExplicitTicks == ~tickPlan.showAll

\* C9: an explicit tick list is a subsequence of the distinct input
\* timestamps, strictly increasing in input position, and contains the last
\* input timestamp exactly once.
C9_TicksAreSubsequence ==
  ExplicitTicks =>
    LET ticks == tickPlan.ticks
    IN  /\ \A k \in 1..Len(ticks) : \E i \in 1..Len(Times) : Times[i] = ticks[k]
        /\ \A k \in 1..(Len(ticks) - 1) : PositionOf(ticks[k]) < PositionOf(ticks[k + 1])
        /\ Cardinality({k \in 1..Len(ticks) : ticks[k] = Times[Len(Times)]}) = 1

\* the stride lands on the last timestamp, which must not be appended again
C9_Witness ==
  /\ ExplicitTicks
  /\ Len(Times) = 5
  /\ tickPlan.ticks = <<Times[1], Times[3], Times[5]>>

\* floor(plotWidthPx / perTickFootprintPx) of the chosen candidate
FootprintsThatFit ==
  (PlotWidth(chartProps, containerWidth) * 1000)
     \div PerTick(Candidates[tickPlan.cand], Len(Times), glyph)

\* C10 as stated: an explicit tick list has at most
\* floor(plotWidthPx / perTickFootprintPx) ticks, at every plot width.
C10_TicksWithinFootprints == ExplicitTicks => Len(tickPlan.ticks) <= FootprintsThatFit

\* C10 amended: an explicit tick list has at most
\* max(2, floor(plotWidthPx / perTickFootprintPx)) ticks: at plot widths
\* below two label footprints the first and the last tick are still shown.
C10_TicksWithinFootprintsOrTwo ==
  ExplicitTicks => Len(tickPlan.ticks) <= Max(2, FootprintsThatFit)

C10_Witness ==
  /\ ExplicitTicks
  /\ FootprintsThatFit = 3
  /\ Len(Times) = 4
  /\ Len(tickPlan.ticks) = 3

\* the plot width and the footprint the returned plan was computed for
PlotWidthNow == PlotWidth(chartProps, containerWidth)

PerTickNow == PerTick(Candidates[tickPlan.cand], Len(Times), glyph)

\* maxTicks of the last candidate
LastMaxTicks == MaxTicks(Candidates[Len(Candidates)], Len(Times), glyph, PlotWidthNow)

\* the spec's example: 100 timestamps, maxTicks = 5
HundredStamps == [i \in 1..100 |-> i]

\* C11: whenever the planner subsamples (more timestamps than maxTicks of the
\* last candidate, maxTicks >= 2), it returns at most maxTicks ticks and the
\* last of them is the final input timestamp; 100 timestamps with
\* maxTicks = 5 give at most 5 ticks ending in the 100th.
C11_SubsampleWithinMaxTicks ==
  /\ ExplicitTicks =>
       /\ tickPlan.cand = Len(Candidates)
       /\ LastMaxTicks >= 2
       /\ Len(Times) > LastMaxTicks
       /\ Len(tickPlan.ticks) >= 2
       /\ Len(tickPlan.ticks) <= LastMaxTicks
       /\ tickPlan.ticks[Len(tickPlan.ticks)] = Times[Len(Times)]
  /\ Len(SelectTicks(HundredStamps, 5)) <= 5
  /\ SelectTicks(HundredStamps, 5)[Len(SelectTicks(HundredStamps, 5))] = 100

\* the stride misses the final timestamp, which is appended
C11_Witness ==
  /\ ExplicitTicks
  /\ LastMaxTicks = 3
  /\ tickPlan.ticks = <<Times[1], Times[3], Times[4]>>
  /\ Len(Times) = 4

\* C12: with at most 2 distinct timestamps the plan shows all ticks and is
\* the first candidate's, at every plot width (zero, negative, not finite,
\* positive).
C12_FewTimestampsShowAll ==
  Len(Times) <= 2 =>
    /\ tickPlan.showAll
    /\ tickPlan.ticks = <<>>
    /\ tickPlan.cand = 1
    /\ Candidates[tickPlan.cand] = [mode |-> "double", fontSize |-> 11, angle |-> 0]

C12_Witness ==
  /\ Len(Times) = 2
  /\ chartProps.exportMode
  /\ chartProps.exportWidthPx = InfinitePx
  /\ tickPlan.showAll

\* input positions (0-based) of the ticks the plan shows, in order
ShownPositions ==
  IF tickPlan.showAll THEN [k \in 1..Len(Times) |-> k - 1]
  ELSE [k \in 1..Len(tickPlan.ticks) |-> PositionOf(tickPlan.ticks[k]) - 1]

\* C13: with the data points spaced evenly over a positive plot width, any
\* two consecutive shown ticks at input positions i < j are at least one
\* per-tick footprint apart: (j - i) * plotWidthPx / (count - 1) >= perTick.
C13_LabelsNeverOverlap ==
  (PlotWidthNow > 0 /\ Len(Times) >= 2) =>
    \A k \in 1..(Len(ShownPositions) - 1) :
      (ShownPositions[k + 1] - ShownPositions[k]) * PlotWidthNow * 1000
         >= PerTickNow * (Len(Times) - 1)

WatermarkLayers(w) == {k \in 1..Len(w.layers) : w.layers[k][1] = "watermark"}

\* what a call without watermark does: every page captured in order, placed,
\* addPage before every image but the first, then save
RECURSIVE PlainOps(_)
PlainOps(n) ==
  IF n = 0 THEN <<>>
  ELSE PlainOps(n - 1) \o (IF n > 1 THEN << <<"addPage">> >> ELSE <<>>)
                       \o << <<"addImage", n - 1>> >>

WatermarkUnavailable == opts.watermarkText = "" \/ ~opts.ctx2d

\* C16: an unavailable watermark never fails or shortens the export: with
\* empty watermark text no staged page has a watermark layer, without a 2D
\* context no tile image is drawn, and in both cases every page is staged,
\* captured and placed and the document is saved as without watermark.
C16_WatermarkUnavailableIsHarmless ==
  (PagesBuilt /\ WatermarkUnavailable) =>
    /\ \A w \in body :
         /\ opts.watermarkText = "" => WatermarkLayers(w) = {}
         /\ \A k \in WatermarkLayers(w) : ~opts.ctx2d => w.layers[k][2] = FALSE
         /\ w.items = pages[w.page + 1]
    /\ error = "none" => pc \in {"capturing", "done"}
    /\ pc = "capturing" =>
         /\ h2cCalls = [k \in 1..(pageIndex + 1) |-> k - 1]
         /\ pdfOps = PlainOps(pageIndex)
         /\ \E w \in body : w.page = pageIndex
    /\ pc = "done" =>
         /\ h2cCalls = [k \in 1..Len(pages) |-> k - 1]
         /\ pdfOps = Append(PlainOps(Len(pages)), <<"save">>)

C16_Witness ==
  /\ pc = "capturing"
  /\ opts.watermarkText = ""
  /\ ~opts.ctx2d
  /\ pageIndex = 2
  /\ \E w \in body : WatermarkLayers(w) = {}

\* C17 as stated: the staging wrapper of every page has exactly the pixel
\* width passed as wrapperWidthPx.
C17_WrapperHasRequestedWidth ==
  \A w \in body :
    /\ opts.wrapperWidthPx[1] = "num"
    /\ 2 * w.width = opts.wrapperWidthPx[2]

\* C17 amended: the staging wrapper of every page is
\* min(980, max(520, round(wrapperWidthPx))) px wide, 780 px when
\* wrapperWidthPx is not finite; that is the requested width exactly when the
\* request is a whole number of px from 520 to 980 (the repository's caller
\* passes 794).
C17_WrapperHasClampedWidth ==
  \A w \in body :
    LET req == opts.wrapperWidthPx
    IN  /\ w.width >= 520
        /\ w.width <= 980
        /\ req[1] # "num" => w.width = 780
        /\ (req[1] = "num" /\ req[2] < 2 * 520) => w.width = 520
        /\ (req[1] = "num" /\ req[2] > 2 * 980) => w.width = 980
        /\ (req[1] = "num" /\ req[2] >= 2 * 520 /\ req[2] <= 2 * 980) =>
             /\ 2 * w.width - 1 <= req[2]
             /\ req[2] <= 2 * w.width
        /\ (2 * w.width = req[2]) <=>
             (req[1] = "num" /\ req[2] % 2 = 0 /\ req[2] >= 2 * 520 /\ req[2] <= 2 * 980)

C17_Witness ==
  /\ pc = "capturing"
  /\ opts.wrapperWidthPx = Num(2400)
  /\ \E w \in body : w.width = 980

PlacedPages == {pdfOps[k][2] : k \in {j \in 1..Len(pdfOps) : pdfOps[j][1] = "addImage"}}

\* C19: within one call the pages are captured in strictly ascending page
\* index and at most one staging wrapper is mounted at any moment: a mounted
\* wrapper is that of the page being captured, and every page captured before
\* it has been placed and its wrapper removed.
C19_OnePageAtATime ==
  /\ Cardinality(body) <= 1
  /\ \A j, k \in 1..Len(h2cCalls) : j < k => h2cCalls[j] < h2cCalls[k]
  /\ \A w \in body :
       /\ Len(h2cCalls) >= 1
       /\ w.page = h2cCalls[Len(h2cCalls)]
       /\ w.page = pageIndex
       /\ \A k \in 1..(Len(h2cCalls) - 1) : h2cCalls[k] \in PlacedPages
       /\ w.page \notin PlacedPages
  /\ pc = "capturing" => Cardinality(body) = 1

C19_Witness ==
  /\ pc = "capturing"
  /\ h2cCalls = <<0, 1, 2>>
  /\ PlacedPages = {0, 1}
  /\ body = {Wrapper(opts, pages, 2)}

DocumentPages == 1 + Cardinality({k \in 1..Len(pdfOps) : pdfOps[k] = <<"addPage">>})

\* C20: in a successful paged export the first emitted page is placed without
\* addPage, every later one is placed right after exactly one addPage, save is
\* called once after the last placement, and the saved document has exactly
\* as many pages as were emitted.
C20_OneDocumentPagePerEmittedPage ==
  (pc = "done" /\ pdf) =>
    /\ pdfOps = Append(PlainOps(Len(pages)), <<"save">>)
    /\ DocumentPages = Len(pages)

LegacyDraws == Cardinality({k \in 1..Len(legacyOps) : legacyOps[k][1] = "addImage"})

\* p draws of the whole image, page k at offset marginPt - k*H, addPage before
\* every draw but the first
RECURSIVE LegacyExpectedOps(_)
LegacyExpectedOps(p) ==
  IF p = 0 THEN <<>>
  ELSE LegacyExpectedOps(p - 1)
         \o (IF p > 1 THEN << <<"addPage">> >> ELSE <<>>)
         \o << <<"addImage", RSub(RInt(legacyOpts.marginPt),
                                  RInt((p - 1) * ContentHeight(legacyOpts)))>> >>

LegacyHeightIs23Tenths ==
  legacyImg.imgHeight = RMul(Rat(23, 10), RInt(ContentHeight(legacyOpts)))

\* C15: a finished single-block export with content height H > 0 and image
\* height h has p pages, p the smallest integer >= 1 with h - p*H <= 1pt; page
\* k draws the whole image at offset marginPt - k*H, with addPage before every
\* draw but the first; h = 2.3*H gives 3 pages.
C15_LegacySlicesByContentHeight ==
  (legacyPc = "done" /\ legacyOpts.element /\ ContentHeight(legacyOpts) > 0) =>
    LET h == legacyImg.imgHeight
        H == ContentHeight(legacyOpts)
        p == LegacyDraws
    IN  /\ p >= 1
        /\ RLe(RSub(h, RInt(p * H)), RInt(SliceEpsilon))
        /\ \A q \in 1..(p - 1) : RLt(RInt(SliceEpsilon), RSub(h, RInt(q * H)))
        /\ legacyOps = Append(LegacyExpectedOps(p), <<"save">>)
        /\ LegacyHeightIs23Tenths => p = 3

C15_Witness ==
  /\ legacyPc = "done"
  /\ LegacyHeightIs23Tenths
  /\ LegacyDraws = 3
  /\ legacyOps[5] = <<"addImage", RSub(RInt(legacyOpts.marginPt),
                                        RInt(2 * ContentHeight(legacyOpts)))>>

WaitReturned == exportPc \in {"returned", "exporting"}

\* at least one export item, and every export item of non-zero width
ItemsLaidOut(list) == list # <<>> /\ \A k \in DOMAIN list : list[k] = TRUE

\* what waitForCharts does: at most 30 checks; a list returned before the
\* budget is spent is non-empty with every width non-zero
WaitWithinBudget ==
  /\ waitChecks <= MaxWaitChecks
  /\ WaitReturned =>
       /\ waitChecks >= 1
       /\ ItemsLaidOut(waitResult) \/ waitChecks = MaxWaitChecks

\* the paged export was called with the returned items
ExportGotWaitResult ==
  exportPc = "exporting" =>
    /\ opts.elements.given
    /\ opts.elements.list = [k \in 1..Len(waitResult) |-> k]

\* C14 as stated, in the form a finite run refutes: at most 30 readiness
\* checks, an early return only with a ready list, and after the return the
\* export paginates and captures.
C14_WaitThenCapture ==
  /\ WaitWithinBudget
  /\ ExportGotWaitResult
  /\ exportPc = "exporting" => (pdf /\ Len(pages) >= 1 /\ Len(h2cCalls) >= 1)

\* C14 amended: waitForCharts always finishes after at most 30 readiness
\* checks, returning at the first check that finds at least one export item
\* and every item with non-zero width, otherwise after the 30th check with the
\* items then present; the handler then passes the returned items to the
\* paged export, which paginates and captures them when there is at least one
\* and is a silent no-op when there is none.
C14_WaitFinishesThenExportIsCalled ==
  /\ [](WaitWithinBudget /\ ExportGotWaitResult)
  /\ [](exportPc = "exporting" =>
          IF Len(waitResult) >= 1
            THEN pdf /\ Len(pages) >= 1 /\ Len(h2cCalls) >= 1
            ELSE pc = "done" /\ ~pdf /\ pdfOps = <<>> /\ h2cCalls = <<>>)
  /\ [][(exportPc \in {"started", "sleeping"} /\ waitChecks' = waitChecks + 1
           /\ ItemsLaidOut(exportHost.items))
          => (exportPc' = "returned" /\ waitResult' = exportHost.items)]_vars
  /\ [][(exportPc \in {"started", "sleeping"} /\ exportPc' = "returned")
          => waitResult' = exportHost.items]_vars
  /\ (exportPc = "started") ~> (exportPc = "exporting")

C14_Witness ==
  /\ exportPc = "exporting"
  /\ waitChecks = MaxWaitChecks
  /\ waitResult = <<TRUE, FALSE>>
  /\ pc = "capturing"

\* C18: a trend PDF export never starts (passes the guards of
\* handleExportTrendPdf) while a trend-data fetch is still in flight.
C18_NoExportStartsWhileFetching ==
  [][(exportPc = "idle" /\ exportPc' = "started") => fetches = {}]_vars

\* candidates whose maxTicks admits every timestamp at the current width
FittingCandidates ==
  {c \in DOMAIN Candidates :
     Len(Times) <= MaxTicks(Candidates[c], Len(Times), glyph, PlotWidthNow)}

\* positions 0, s, 2s, ... below count, then the final position unless the
\* stride landed on it (positions counted from 1 here)
StridePositions(count, s) ==
  LET n == ((count - 1) \div s) + 1
  IN  [k \in 1..n |-> (k - 1) * s + 1]
        \o (IF (n - 1) * s + 1 = count THEN <<>> ELSE <<count>>)

\* C21: the plan is that of the first candidate, in the fixed order, with
\* count <= maxTicks, all ticks shown; if there is none it is that of the last
\* candidate (10 px, rotated -35 degrees) with the ticks at positions 0, s,
\* 2s, ... for s = ceil((count-1)/(maxTicks-1)), then the final timestamp iff
\* the stride did not land on it.
C21_PlanFollowsProcedure ==
  IF FittingCandidates # {}
    THEN /\ tickPlan.cand \in FittingCandidates
         /\ \A c \in FittingCandidates : tickPlan.cand <= c
         /\ tickPlan.showAll
         /\ tickPlan.ticks = <<>>
    ELSE /\ tickPlan.cand = Len(Candidates)
         /\ Candidates[tickPlan.cand].fontSize = 10
         /\ Candidates[tickPlan.cand].angle = -35
         /\ ~tickPlan.showAll
         /\ LET count == Len(Times)
                s == CeilDiv(count - 1, LastMaxTicks - 1)
                pos == StridePositions(count, s)
            IN  tickPlan.ticks = [k \in DOMAIN pos |-> Times[pos[k]]]

C21_Witness ==
  /\ FittingCandidates = {}
  /\ Len(Times) = 4
  /\ LastMaxTicks = 3
  /\ Len(tickPlan.ticks) = 3
  /\ tickPlan.ticks[2] = Times[3]
  /\ tickPlan.ticks[3] = Times[4]

\* plot widths at which the clamp of maxTicks is probed (px)
ProbeWidths == {-50, 0, 1, 9, 10, 42, 43, 100, 400}

\* C22: maxTicks is at least 2 for every candidate and plot width; without
\* plot width and with more than 2 timestamps the plan shows exactly the first
\* and the last timestamp.
C22_AtLeastTwoTicks ==
  /\ \A c \in DOMAIN Candidates, w \in ProbeWidths \cup {PlotWidthNow} :
       MaxTicks(Candidates[c], Len(Times), glyph, w) >= 2
  /\ (PlotWidthNow <= 0 /\ Len(Times) > 2) =>
       /\ ~tickPlan.showAll
       /\ tickPlan.ticks = <<Times[1], Times[Len(Times)]>>

C22_Witness ==
  /\ PlotWidthNow = 0
  /\ Len(Times) = 5
  /\ tickPlan.ticks = <<Times[1], Times[5]>>
  /\ chartProps.exportWidthPx = -50

\* C23: a supplied header builder is called once for every page, in ascending
\* page order, with that page's zero-based position and the same totalPages
\* every time, which is the number of pages of the saved document.
C23_HeaderOncePerPage ==
  /\ ~opts.headerBuilder => headerCalls = <<>>
  /\ opts.headerBuilder =>
       /\ Len(headerCalls) = Len(h2cCalls)
       /\ \A k \in DOMAIN headerCalls :
            /\ headerCalls[k][1] = k - 1
            /\ headerCalls[k][1] = h2cCalls[k]
            /\ headerCalls[k][2] = headerCalls[1][2]
       /\ (pc = "done" /\ pdf) =>
            /\ Len(headerCalls) = Len(pages)
            /\ \A k \in DOMAIN headerCalls : headerCalls[k][2] = DocumentPages

C23_Witness ==
  /\ pc = "done"
  /\ opts.headerBuilder
  /\ headerCalls = << <<0, 3>>, <<1, 3>> , <<2, 3>> >>
  /\ DocumentPages = 3

LayersInOrder(w) ==
  LET nW == IF opts.watermarkText # "" THEN 1 ELSE 0
      nH == IF opts.headerBuilder THEN 1 ELSE 0
  IN  /\ w.items = pages[w.page + 1]
      /\ Len(w.layers) = nW + nH + Len(w.items)
      /\ nW = 1 => w.layers[1][1] = "watermark"
      /\ nH = 1 => w.layers[nW + 1][1] = "header"
      /\ \A k \in 1..Len(w.items) : w.layers[nW + nH + k] = <<"block", w.items[k]>>

VisibleLayers(w) == {w.visible[k] : k \in DOMAIN w.visible}

\* C25 as stated: the layers of every staged page are, back to front, the
\* watermark layer (if configured), the header (if supplied) and the cloned
\* blocks in their original order, and the ignore predicate excludes the
\* watermark layer from the capture.
C25_WatermarkExcludedFromCapture ==
  \A w \in body :
    /\ LayersInOrder(w)
    /\ \A k \in WatermarkLayers(w) : w.layers[k] \notin VisibleLayers(w)

\* C25 amended: the layers of every staged page are, back to front, the
\* watermark layer (if configured), the header (if supplied) and the cloned
\* blocks in their original order; the ignore predicate does not match the
\* watermark layer, which is captured with the page.
C25_LayersInOrderWatermarkCaptured ==
  \A w \in body :
    /\ LayersInOrder(w)
    /\ \A k \in WatermarkLayers(w) : w.layers[k] \in VisibleLayers(w)
    /\ \A k \in DOMAIN w.layers :
         w.layers[k] \notin VisibleLayers(w) =>
           /\ opts.ignoreSelector # ""
           /\ w.layers[k][1] = "block"

C25_Witness ==
  /\ pc = "capturing"
  /\ opts.ignoreSelector # ""
  /\ \E w \in body :
       /\ Len(w.layers) = 3
       /\ w.layers[1][1] = "watermark"
       /\ w.layers[2][1] = "header"
       /\ w.visible = SubSeq(w.layers, 1, 2)

\* C26: save is called only after at least one page image has been placed,
\* for every input list, lists of null/undefined entries included: no blank
\* document is saved.
C26_NoBlankDocumentSaved ==
  \A k \in DOMAIN pdfOps :
    pdfOps[k] = <<"save">> => \E j \in 1..(k - 1) : pdfOps[j][1] = "addImage"

\* capacities that are not a whole number >= 1: zero, negative, fractional,
\* NaN, infinite
OddCapacity(v) == v[1] # "num" \/ v[2] < 2 \/ v[2] % 2 = 1

\* C27: for every capacity function the partitioning loop ends with every
\* block on a page: each page is non-empty (the cursor moved on by at least
\* one block) and n blocks give at most n pages.
C27_PartitionTerminates ==
  PagesBuilt =>
    /\ \A i \in DOMAIN pages : Len(pages[i]) >= 1
    /\ Len(pages) <= Len(InputBlocks)
    /\ SumLens(pages, Len(pages)) = Len(InputBlocks)

C27_Witness ==
  /\ PagesBuilt
  /\ opts.itemsPerPage[1] = "fn"
  /\ \A v \in RawCapRange : OddCapacity(v)
  /\ RawCap(0) = Infinity
  /\ RawCap(1) = Num(-2)
  /\ Len(InputBlocks) = 4
  /\ Len(pages) = 4

\* C28: the slicing loop terminates and reaches save for every image height
\* and every margin: each iteration brings heightLeft down, and a call that has
\* entered the loop ends saved.
C28_SlicingReachesSave ==
  /\ [][(legacyPc = "slicing" /\ legacyPc' = "slicing")
          => RSub(legacyImg'.heightLeft, legacyImg.heightLeft)[1] < 0]_vars
  /\ (legacyPc = "slicing") ~> (legacyPc = "done")

\* C24: whenever handleExportTrendPdf has returned, on success or after an
\* error of the paged export, the export host is unmounted and removed and
\* exportingTrendPdf is false again.
C24_HandlerAlwaysCleansUp ==
  /\ exportPc = "idle" => (~exportingTrendPdf /\ ~exportHost.mounted /\ exportHost.items = <<>>)
  /\ exportingTrendPdf => exportPc # "idle"

C24_Witness ==
  /\ exportPc = "idle"
  /\ body # {}
  /\ ~exportingTrendPdf
  /\ ~exportHost.mounted
  /\ ~trendLoading
  /\ trendData.len # 0

\* C29: at most one execution of handleExportTrendPdf is past its guards at
\* any time, with at most one export host, and pages are captured only for it.
C29_OneExportAtATime ==
  /\ activeExports <= 1
  /\ exportHost.mounted <=> activeExports = 1
  /\ exportPc # "idle" <=> activeExports = 1
  /\ exportingTrendPdf <=> activeExports = 1
  /\ pc = "capturing" => (activeExports = 1 /\ exportPc = "exporting")

C29_Witness ==
  /\ activeExports = 1
  /\ exportPc = "sleeping"
  /\ body # {}
  /\ fetches # {}

\* C30: once all started trend fetches have settled, trendData is the result
\* of the fetch started last, and trendLoading is false only when no trend
\* fetch is in flight.
C30_LatestFetchWins ==
  /\ fetches = {} => trendData.seq = fetchSeq
  /\ ~trendLoading => fetches = {}

====
